---- MODULE Spec2Model ----
(***************************************************************************)
(* Model of the md-editor backend (src/server/index.js, lines 1-168): the  *)
(* sync (clone) and commit-and-push workflows, the file read/write         *)
(* handlers and the recursive markdown listing.                            *)
(*                                                                         *)
(* Strings are sequences of atoms. An atom is a run of characters that no  *)
(* pattern of the program ('/', '.', '..', '.git', '.md',                  *)
(* 'https://github.com/') straddles, so that split, replace, startsWith    *)
(* and endsWith act on atoms exactly as they act on characters.            *)
(***************************************************************************)
EXTENDS Integers, Sequences, FiniteSets

VARIABLES
    repos,      \* REPOS_DIR: repository name -> working copy, or Absent
    remotes,    \* the remote hosts: plain URL -> snapshot of the branch
    serverFile, \* content of index.js in the server's own directory
    req,        \* the request being served: body, params, locals, response
    tree,       \* a directory on disk, for getMarkdownFiles
    listing,    \* the array getMarkdownFiles returned
    other,      \* a second request, waiting at an await while req runs
    identity,   \* who sends the requests: the user of the git identity
    owner,      \* repository name -> the identity whose sync cloned it
    app         \* the React state of the client App, and its fetches in flight

vars ==
    <<repos, remotes, serverFile, req, tree, listing, other, identity, owner, app>>

(***************************************************************************)
(* Bounds                                                                  *)
(***************************************************************************)
MaxAhead == 2       \* local commits not yet pushed that the model follows
MaxSegLen == 4      \* atoms of a URL's last segment before its final '.git'
MaxHistory == 2     \* entries of the client's editHistory that the model follows
MaxLoads == 2       \* loadFile calls of the client in flight at a time

(***************************************************************************)
(* JavaScript values and strings                                           *)
(***************************************************************************)
Undefined == [t |-> "undefined"]
Str(s) == [t |-> "string", s |-> s]
IsString(v) == v.t = "string"

\* JavaScript truthiness of undefined or a string: `!token` is ~Truthy(token)
Truthy(v) == IsString(v) /\ Len(v.s) > 0

\* s.startsWith(p)
StartsWith(s, p) == Len(s) >= Len(p) /\ SubSeq(s, 1, Len(p)) = p

\* s.endsWith(p)
EndsWith(s, p) == Len(s) >= Len(p) /\ SubSeq(s, Len(s) - Len(p) + 1, Len(s)) = p

\* positions at which p occurs in s
Occurrences(s, p) ==
    {i \in 1..(Len(s) + 1 - Len(p)) : SubSeq(s, i, i + Len(p) - 1) = p}

Min(S) == CHOOSE x \in S : \A y \in S : x <= y

\* s.replace(p, r) with a string pattern: the first occurrence only
Replace(s, p, r) ==
    IF Occurrences(s, p) = {} THEN s
    ELSE LET i == Min(Occurrences(s, p))
         IN  SubSeq(s, 1, i - 1) \o r \o SubSeq(s, i + Len(p), Len(s))

\* s.split(sep) for a one-atom separator: a sequence of strings
RECURSIVE Split(_, _)
Split(s, sep) ==
    IF Occurrences(s, <<sep>>) = {} THEN <<s>>
    ELSE LET i == Min(Occurrences(s, <<sep>>))
         IN  <<SubSeq(s, 1, i - 1)>> \o Split(SubSeq(s, i + 1, Len(s)), sep)

\* parts.join(sep)
RECURSIVE Join(_, _)
Join(parts, sep) ==
    IF Len(parts) = 0 THEN <<>>
    ELSE IF Len(parts) = 1 THEN parts[1]
    ELSE parts[1] \o <<sep>> \o Join(Tail(parts), sep)

\* array.pop(): the last element
Last(q) == q[Len(q)]

(***************************************************************************)
(* path.join                                                               *)
(***************************************************************************)
Slash == "/"
Dot == "."
DotDot == <<Dot, Dot>>

\* path.normalize on the segments of a path: '' and '.' are dropped, '..'
\* removes the segment before it (and is dropped at the root of an
\* absolute path)
RECURSIVE NormalizeSegs(_, _, _)
NormalizeSegs(segs, out, abs) ==
    IF Len(segs) = 0 THEN out
    ELSE LET h == Head(segs)
             t == Tail(segs)
         IN  IF h = <<>> \/ h = <<Dot>> THEN NormalizeSegs(t, out, abs)
             ELSE IF h = DotDot
             THEN IF Len(out) > 0 /\ Last(out) # DotDot
                  THEN NormalizeSegs(t, SubSeq(out, 1, Len(out) - 1), abs)
                  ELSE IF abs THEN NormalizeSegs(t, out, abs)
                  ELSE NormalizeSegs(t, Append(out, h), abs)
             ELSE NormalizeSegs(t, Append(out, h), abs)

\* the non-empty arguments of path.join
RECURSIVE NonEmpty(_)
NonEmpty(parts) ==
    IF Len(parts) = 0 THEN <<>>
    ELSE IF Head(parts) = <<>> THEN NonEmpty(Tail(parts))
    ELSE <<Head(parts)>> \o NonEmpty(Tail(parts))

\* path.join(...parts): the parts joined by '/', then normalized
PathJoin(parts) ==
    LET joined == Join(NonEmpty(parts), Slash)
        abs == StartsWith(joined, <<Slash>>)
        segs == NormalizeSegs(Split(joined, Slash), <<>>, abs)
    IN  IF abs THEN <<Slash>> \o Join(segs, Slash) ELSE Join(segs, Slash)

\* the segments of a normalized path
Segments(p) == NormalizeSegs(Split(p, Slash), <<>>, StartsWith(p, <<Slash>>))

(***************************************************************************)
(* The server's directories                                                *)
(***************************************************************************)
\* __dirname of the server
ServerDir == <<Slash, "app">>

REPOS_DIR == PathJoin(<<ServerDir, <<"repos">>>>)

\* the server's own source file, beside REPOS_DIR
ServerFilePath == PathJoin(<<ServerDir, <<"index", Dot, "js">>>>)

(***************************************************************************)
(* Request inputs                                                          *)
(***************************************************************************)
GithubPrefix == <<"https", ":", Slash, Slash, "github", Dot, "com", Slash>>

GithubUrl ==
    <<"https", ":", Slash, Slash, "github", Dot, "com", Slash,
      "org", Slash, "repo", Dot, "git">>

GitlabUrl ==
    <<"https", ":", Slash, Slash, "gitlab", Dot, "com", Slash,
      "org", Slash, "repo", Dot, "git">>

Urls == {GithubUrl, GitlabUrl}

Tokens == {<<"tokA">>}

\* a second token of the same account, sent with commit requests only
OtherToken == <<"tokB">>

\* the tokens the hosts accept
ValidTokens == Tokens \cup {OtherToken}

\* {repoUrl, token, provider} of a sync request body: the provider the
\* client sends is the one of the URL's host; repoUrl and token can be
\* missing, and the token can be the empty string
SyncBodies ==
    {[repoUrl |-> u, token |-> t, provider |-> "github"] :
        u \in {Str(GithubUrl), Undefined},
        t \in {Str(k) : k \in Tokens} \cup {Str(<<>>), Undefined}}
    \cup
    {[repoUrl |-> Str(GitlabUrl), token |-> t, provider |-> "gitlab"] :
        t \in {Str(k) : k \in Tokens} \cup {Str(<<>>), Undefined}}

\* {token, repoUrl, provider} of a commit request body
CommitBodies ==
    {[repoUrl |-> Str(GithubUrl), token |-> Str(k), provider |-> "github"] :
        k \in Tokens}
    \cup
    {[repoUrl |-> Str(GitlabUrl), token |-> Str(k), provider |-> "gitlab"] :
        k \in Tokens}
    \cup
    {[repoUrl |-> Undefined, token |-> Str(k), provider |-> "github"] :
        k \in Tokens}
    \cup
    {[repoUrl |-> Str(GithubUrl), token |-> Undefined, provider |-> "github"],
     [repoUrl |-> Str(GithubUrl), token |-> Str(OtherToken), provider |-> "github"]}

\* the atoms of the last segment of a source URL
SegAtoms == {"x", Dot, "git", "lab"}

\* the source URLs that end in '.git', with any last segment
GitUrls ==
    {GithubPrefix \o <<"org", Slash>> \o seg \o <<Dot, "git">> :
        seg \in UNION {[1..k -> SegAtoms] : k \in 0..MaxSegLen}}

FileA == <<"a", Dot, "md">>
FileN == <<"n", Dot, "md">>

\* the files of a working copy that the model follows
Files == {FileA, FileN}

NoFile == "absent"

\* content of a request body of PUT /api/file
Contents == {"c1", "c2"}

\* what the remote branch holds before any push
Snap0 == [f \in Files |-> IF f = FileA THEN "c1" ELSE NoFile]

\* :repo of a request
RepoParams == {<<"repo">>}

\* trailing wildcard paths that name a file of the repository
RepoWildcards == {FileA, FileN}

\* '../../index.js'
EscapingWildcard ==
    DotDot \o <<Slash>> \o DotDot \o <<Slash, "index", Dot, "js">>

\* the trailing wildcard path of a request
Wildcards == RepoWildcards \cup {EscapingWildcard}

(***************************************************************************)
(* Working copies and remotes                                              *)
(***************************************************************************)
\* `${v}` in a template literal
Interpolate(v) == IF IsString(v) THEN v.s ELSE <<"undefined">>

\* repoUrl.split('/').pop().replace('.git', '')
RepoName(repoUrl) == Replace(Last(Split(repoUrl, Slash)), <<Dot, "git">>, <<>>)

\* repoUrl.replace('https://github.com/', `https://${token}@github.com/`)
AuthUrl(repoUrl, token) ==
    Replace(repoUrl, GithubPrefix,
            <<"https", ":", Slash, Slash>> \o Interpolate(token)
                \o <<"@", "github", Dot, "com", Slash>>)

\* path.join(REPOS_DIR, repoName)
RepoPath(name) == PathJoin(<<REPOS_DIR, name>>)

\* the names under which the model keeps working copies
RepoNames == {RepoName(u) : u \in Urls} \cup RepoParams

\* the URL a host sees: the URL without the credentials before '@'
StripCred(url) ==
    IF Occurrences(url, <<"@">>) = {} THEN url
    ELSE LET a == Min(Occurrences(url, <<"@">>))
         IN  <<"https", ":", Slash, Slash>> \o SubSeq(url, a + 1, Len(url))

\* the credentials of a URL: what stands between 'https://' and '@'
Credentials(url) ==
    IF Occurrences(url, <<"@">>) = {} THEN <<>>
    ELSE SubSeq(url, 5, Min(Occurrences(url, <<"@">>)) - 1)

\* the hosts serve their repositories to authenticated callers only: the
\* credentials are a valid token, alone (GitHub) or after 'oauth2:' (GitLab)
Authenticated(url) ==
    \E k \in ValidTokens :
        Credentials(url) = k \/ Credentials(url) = <<"oauth2", ":">> \o k

Absent == [exists |-> FALSE]

\* what `git clone authUrl repoPath` leaves at repoPath: the remote branch
\* checked out, and authUrl stored as the remote named origin
FreshClone(authUrl, snap) ==
    [exists |-> TRUE, origin |-> authUrl,
     head |-> snap, index |-> snap, work |-> snap, ahead |-> 0]

\* status.files of git.status(): the paths that differ between HEAD, the
\* index and the working tree
ChangedPaths(w) ==
    {f \in Files : w.head[f] # w.index[f] \/ w.index[f] # w.work[f]}

\* the paths of a working copy in the order git status reports them
FileOrder == <<FileA, FileN>>

\* the first letter of `git status --porcelain` for a path: the index
\* against HEAD
StatusX(w, f) ==
    IF w.index[f] = w.head[f] THEN " "
    ELSE IF w.head[f] = NoFile THEN "A"
    ELSE IF w.index[f] = NoFile THEN "D"
    ELSE "M"

\* the second letter: the working tree against the index, '?' for a file
\* that the index does not know
StatusY(w, f) ==
    IF w.work[f] = w.index[f] THEN " "
    ELSE IF w.index[f] = NoFile THEN "?"
    ELSE IF w.work[f] = NoFile THEN "D"
    ELSE "M"

\* status.modified of git.status(): ' M', 'M ', 'MM', 'AM'
StatusModified(w) ==
    SelectSeq(FileOrder, LAMBDA f : StatusX(w, f) = "M" \/ StatusY(w, f) = "M")

\* status.created: 'A ', 'AM'
StatusCreated(w) == SelectSeq(FileOrder, LAMBDA f : StatusX(w, f) = "A")

\* status.staged: the paths whose index differs from HEAD
StatusStaged(w) == SelectSeq(FileOrder, LAMBDA f : StatusX(w, f) # " ")

\* status.deleted: ' D', 'D '
StatusDeleted(w) ==
    SelectSeq(FileOrder, LAMBDA f : StatusX(w, f) = "D" \/ StatusY(w, f) = "D")

\* status.not_added: '??'
StatusNotAdded(w) == SelectSeq(FileOrder, LAMBDA f : StatusY(w, f) = "?")

\* [...status.modified, ...status.created, ...status.staged]
ModifiedFiles(w) == StatusModified(w) \o StatusCreated(w) \o StatusStaged(w)

\* the working copy holds edits or commits that the remote does not
HasLocalWork(w) == w.exists /\ (ChangedPaths(w) # {} \/ w.ahead > 0)

(***************************************************************************)
(* The disk, as the file handlers see it                                   *)
(***************************************************************************)
\* where an absolute normalized path leads: a file of a working copy, the
\* server's own file, or nothing the model follows
Locate(filePath) ==
    LET segs == Segments(filePath)
        base == Segments(REPOS_DIR)
        k == Len(base)
    IN  IF filePath = ServerFilePath THEN [where |-> "server"]
        ELSE IF /\ Len(segs) = k + 2
                /\ SubSeq(segs, 1, k) = base
                /\ segs[k + 1] \in RepoNames
                /\ segs[k + 2] \in Files
        THEN [where |-> "repo", name |-> segs[k + 1], file |-> segs[k + 2]]
        ELSE [where |-> "nowhere"]

\* path.join(REPOS_DIR, req.params.repo, req.params[0])
FilePath(repo, wildcard) == PathJoin(<<REPOS_DIR, repo, wildcard>>)

\* FilePath and Locate on the requests of the model, computed once
FilePathOf == [n \in RepoParams, w \in Wildcards |-> FilePath(n, w)]

LocationOf ==
    [p \in {FilePathOf[n, w] : n \in RepoParams, w \in Wildcards} |-> Locate(p)]

\* the content fs.readFile finds at filePath, or NoFile (ENOENT)
ReadDisk(filePath) ==
    LET l == LocationOf[filePath]
    IN  IF l.where = "server" THEN serverFile
        ELSE IF l.where = "repo" /\ repos[l.name].exists
        THEN repos[l.name].work[l.file]
        ELSE NoFile

\* fs.writeFile can write filePath: its directory exists
Writable(filePath) ==
    LET l == LocationOf[filePath]
    IN  \/ l.where = "server"
        \/ l.where = "repo" /\ repos[l.name].exists

(***************************************************************************)
(* Requests                                                                *)
(***************************************************************************)
IdleReq ==
    [kind |-> "none", pc |-> "idle",
     repoUrl |-> Undefined, token |-> Undefined, provider |-> "github",
     repo |-> <<>>, wildcard |-> <<>>, content |-> NoFile,
     repoName |-> <<>>, authUrl |-> <<>>, existed |-> FALSE,
     discarded |-> FALSE,
     statusFiles |-> {}, swallowed |-> FALSE, filePath |-> <<>>,
     calls |-> <<>>, code |-> 0, msg |-> "", out |-> NoFile, list |-> <<>>]

\* The fields of a request: kind and pc say which handler runs and where
\* it stands; repoUrl, token, provider, repo, wildcard and content are the
\* body and the parameters; repoName, authUrl, existed (the value of
\* fs.pathExists), statusFiles and filePath are the handler's locals; calls
\* lists the fs and git calls made so far; code, msg, out and list are the
\* response; discarded notes that fs.remove deleted local work, swallowed
\* that the rejection of git.addRemote was caught and dropped.

\* the server serves one request at a time in this specification
Free == req.pc \in {"idle", "done"}

\* res.status(code).json(...) or res.json(...)
Respond(r, code, msg) == [r EXCEPT !.pc = "done", !.code = code, !.msg = msg]

Called(r, call) == [r EXCEPT !.calls = Append(@, call)]

\* no listing has been asked for
NotListed == [done |-> FALSE, files |-> <<>>]

ServerUnchanged == UNCHANGED <<repos, remotes, serverFile>>
ListUnchanged == UNCHANGED <<tree, listing>>
CallersUnchanged == UNCHANGED <<other, identity, owner>>
ClientUnchanged == UNCHANGED app

(***************************************************************************)
(* POST /api/repo/sync                                                     *)
(***************************************************************************)
\* the handler up to its first await: the body is read, the repository
\* name is derived, the token is checked, the authenticated URL is built
SyncStart(repoUrl, token, provider) ==
    /\ Free
    /\ LET r == [IdleReq EXCEPT !.kind = "sync", !.repoUrl = repoUrl,
                                !.token = token, !.provider = provider]
       IN  req' =
             IF ~IsString(repoUrl)
             THEN \* repoUrl.split throws a TypeError, caught at line 40
                  Respond(r, 500, "TypeError")
             ELSE IF ~Truthy(token)
             THEN Respond([r EXCEPT !.repoName = RepoName(repoUrl.s)], 400,
                          "Access token is required for private repositories")
             ELSE [r EXCEPT !.pc = "pathExists",
                            !.repoName = RepoName(repoUrl.s),
                            !.authUrl = AuthUrl(repoUrl.s, token)]
    /\ ServerUnchanged
    /\ ListUnchanged
    /\ CallersUnchanged
    /\ ClientUnchanged

\* a sync that pulls into the working copy it finds instead of replacing it
SyncPathExistsPull ==
    /\ req.kind = "sync" /\ req.pc = "pathExists"
    /\ LET e == repos[req.repoName].exists
       IN  req' = IF e
                  THEN Respond([Called(req, "fs.pathExists") EXCEPT !.existed = e],
                               200, "success")
                  ELSE [Called(req, "fs.pathExists") EXCEPT
                           !.existed = e, !.pc = "clone"]
    /\ ServerUnchanged
    /\ ListUnchanged
    /\ CallersUnchanged
    /\ ClientUnchanged

\* await fs.pathExists(repoPath)
SyncPathExists ==
    /\ req.kind = "sync" /\ req.pc = "pathExists"
    /\ LET e == repos[req.repoName].exists
       IN  req' = [Called(req, "fs.pathExists") EXCEPT
                      !.existed = e,
                      !.pc = IF e THEN "remove" ELSE "clone"]
    /\ ServerUnchanged
    /\ ListUnchanged
    /\ CallersUnchanged
    /\ ClientUnchanged

\* await fs.remove(repoPath)
SyncRemove ==
    /\ req.kind = "sync" /\ req.pc = "remove"
    /\ repos' = [repos EXCEPT ![req.repoName] = Absent]
    /\ req' = [Called(req, "fs.remove") EXCEPT
                  !.pc = "clone",
                  !.discarded = HasLocalWork(repos[req.repoName])]
    /\ UNCHANGED <<remotes, serverFile>>
    /\ ListUnchanged
    /\ CallersUnchanged
    /\ ClientUnchanged

\* git clone can succeed: the host knows the repository and the
\* destination does not exist
CanClone(authUrl, name) ==
    /\ StripCred(authUrl) \in DOMAIN remotes
    /\ Authenticated(authUrl)
    /\ ~repos[name].exists

\* await git.clone(authUrl, repoPath) succeeds; res.json({success, repoPath})
SyncCloneOk ==
    /\ req.kind = "sync" /\ req.pc = "clone"
    /\ CanClone(req.authUrl, req.repoName)
    /\ repos' = [repos EXCEPT ![req.repoName] =
                    FreshClone(req.authUrl, remotes[StripCred(req.authUrl)])]
    /\ req' = Respond(Called(req, "git.clone"), 200, "success")
    /\ owner' = [owner EXCEPT ![req.repoName] = identity]
    /\ UNCHANGED <<remotes, serverFile, other, identity>>
    /\ ListUnchanged
    /\ ClientUnchanged

\* await git.clone(authUrl, repoPath) throws (bad URL, bad token, network):
\* git removes what it created, the handler answers 500
SyncCloneFail ==
    /\ req.kind = "sync" /\ req.pc = "clone"
    /\ req' = Respond(Called(req, "git.clone"), 500, "clone failed")
    /\ ServerUnchanged
    /\ ListUnchanged
    /\ CallersUnchanged
    /\ ClientUnchanged

(***************************************************************************)
(* POST /api/repo/:repo/commit                                             *)
(***************************************************************************)
\* the handler up to its first await: the body is read and simpleGit is
\* bound to repoPath, which throws when the directory does not exist
CommitStart(repo, repoUrl, token, provider) ==
    /\ Free
    /\ repos[repo].exists => repos[repo].ahead < MaxAhead
    /\ LET r == [IdleReq EXCEPT !.kind = "commit", !.repo = repo,
                                !.repoName = repo, !.repoUrl = repoUrl,
                                !.token = token, !.provider = provider]
       IN  req' = IF repos[repo].exists
                  THEN [r EXCEPT !.pc = "status"]
                  ELSE Respond(r, 500, "directory does not exist")
    /\ ServerUnchanged
    /\ ListUnchanged
    /\ CallersUnchanged
    /\ ClientUnchanged

\* a commit handler without the early return on an empty status
CommitStatusNoReturn ==
    /\ req.kind = "commit" /\ req.pc = "status"
    /\ repos[req.repoName].exists
    /\ LET files == ChangedPaths(repos[req.repoName])
           r == [Called(req, "git.status") EXCEPT !.statusFiles = files]
       IN  req' =
             IF ~IsString(req.repoUrl)
             THEN Respond(r, 500, "TypeError")
             ELSE [r EXCEPT !.pc = "addRemote",
                            !.authUrl = AuthUrl(req.repoUrl.s, req.token)]
    /\ ServerUnchanged
    /\ ListUnchanged
    /\ CallersUnchanged
    /\ ClientUnchanged

\* await git.status(), the test of status.files.length, and the build of
\* the authenticated URL
CommitStatus ==
    /\ req.kind = "commit" /\ req.pc = "status"
    /\ repos[req.repoName].exists
    /\ LET files == ChangedPaths(repos[req.repoName])
           r == [Called(req, "git.status") EXCEPT !.statusFiles = files]
       IN  req' =
             IF files = {}
             THEN Respond(r, 200, "No changes to commit")
             ELSE IF ~IsString(req.repoUrl)
             THEN \* repoUrl.replace throws a TypeError, caught at line 139
                  Respond(r, 500, "TypeError")
             ELSE [r EXCEPT !.pc = "addRemote",
                            !.authUrl = AuthUrl(req.repoUrl.s, req.token)]
    /\ ServerUnchanged
    /\ ListUnchanged
    /\ CallersUnchanged
    /\ ClientUnchanged

\* a catch block that undoes the local commit when the push throws
CommitFailRollback ==
    /\ req.kind = "commit"
    /\ req.pc \in {"status", "add", "commit", "revparse", "push"}
    /\ req' = Respond(Called(req, "git." \o req.pc), 500, "git failed")
    /\ IF req.pc = "push" /\ repos[req.repoName].ahead > 0
       THEN repos' = [repos EXCEPT ![req.repoName].ahead = @ - 1]
       ELSE UNCHANGED repos
    /\ UNCHANGED <<remotes, serverFile>>
    /\ ListUnchanged
    /\ CallersUnchanged
    /\ ClientUnchanged

\* every git call of the handler with its own .catch(() => {}): the
\* rejection is dropped and the handler goes on to its next statement
CommitFailSwallowed ==
    /\ req.kind = "commit"
    /\ req.pc \in {"status", "add", "commit", "revparse", "push"}
    /\ req' = IF req.pc = "push"
              THEN Respond([Called(req, "git.push") EXCEPT !.swallowed = TRUE],
                           200, "success")
              ELSE [Called(req, "git." \o req.pc) EXCEPT
                       !.swallowed = TRUE,
                       !.pc = CASE req.pc = "status" -> "addRemote"
                                [] req.pc = "add" -> "commit"
                                [] req.pc = "commit" -> "revparse"
                                [] req.pc = "revparse" -> "push"]
    /\ ServerUnchanged
    /\ ListUnchanged
    /\ CallersUnchanged
    /\ ClientUnchanged

\* a catch block that logs the error and answers success
CommitFailAnswersOk ==
    /\ req.kind = "commit"
    /\ req.pc \in {"status", "add", "commit", "revparse", "push"}
    /\ req' = Respond(Called(req, "git." \o req.pc), 200, "success")
    /\ ServerUnchanged
    /\ ListUnchanged
    /\ CallersUnchanged
    /\ ClientUnchanged

\* a git call of the commit handler throws: the catch answers 500
CommitFail ==
    /\ req.kind = "commit"
    /\ req.pc \in {"status", "add", "commit", "revparse", "push"}
    /\ req' = Respond(Called(req, "git." \o req.pc), 500, "git failed")
    /\ ServerUnchanged
    /\ ListUnchanged
    /\ CallersUnchanged
    /\ ClientUnchanged

\* await git.addRemote('origin', authUrl).catch(() => {}): git refuses to
\* add a remote that exists, or to run in a directory that is gone, and
\* the rejection is swallowed
CommitAddRemote ==
    /\ req.kind = "commit" /\ req.pc = "addRemote"
    /\ LET w == repos[req.repoName]
           added == w.exists /\ w.origin = <<>>
       IN  /\ repos' = IF added
                       THEN [repos EXCEPT ![req.repoName].origin = req.authUrl]
                       ELSE repos
           /\ req' = [Called(req, "git.addRemote") EXCEPT
                         !.pc = "add", !.swallowed = ~added]
    /\ UNCHANGED <<remotes, serverFile>>
    /\ ListUnchanged
    /\ CallersUnchanged
    /\ ClientUnchanged

\* await git.add('.')
CommitAdd ==
    /\ req.kind = "commit" /\ req.pc = "add"
    /\ repos[req.repoName].exists
    /\ repos' = [repos EXCEPT ![req.repoName].index = repos[req.repoName].work]
    /\ req' = [Called(req, "git.add") EXCEPT !.pc = "commit"]
    /\ UNCHANGED <<remotes, serverFile>>
    /\ ListUnchanged
    /\ CallersUnchanged
    /\ ClientUnchanged

\* await git.commit(message || 'Update markdown files'): a commit of the
\* index; git refuses when the index holds nothing new
CommitCommit ==
    /\ req.kind = "commit" /\ req.pc = "commit"
    /\ repos[req.repoName].exists
    /\ repos[req.repoName].index # repos[req.repoName].head
    /\ repos' = [repos EXCEPT ![req.repoName].head = repos[req.repoName].index,
                              ![req.repoName].ahead = @ + 1]
    /\ req' = [Called(req, "git.commit") EXCEPT !.pc = "revparse"]
    /\ UNCHANGED <<remotes, serverFile>>
    /\ ListUnchanged
    /\ CallersUnchanged
    /\ ClientUnchanged

\* await git.revparse(['--abbrev-ref', 'HEAD'])
CommitRevparse ==
    /\ req.kind = "commit" /\ req.pc = "revparse"
    /\ repos[req.repoName].exists
    /\ req' = [Called(req, "git.revparse") EXCEPT !.pc = "push"]
    /\ ServerUnchanged
    /\ ListUnchanged
    /\ CallersUnchanged
    /\ ClientUnchanged

\* await git.push('origin', currentBranch) succeeds; res.json({success})
CommitPush ==
    /\ req.kind = "commit" /\ req.pc = "push"
    /\ repos[req.repoName].exists
    /\ StripCred(repos[req.repoName].origin) \in DOMAIN remotes
    /\ Authenticated(repos[req.repoName].origin)
    /\ remotes' = [remotes EXCEPT ![StripCred(repos[req.repoName].origin)] =
                      repos[req.repoName].head]
    /\ repos' = [repos EXCEPT ![req.repoName].ahead = 0]
    /\ req' = Respond(Called(req, "git.push"), 200, "success")
    /\ UNCHANGED serverFile
    /\ ListUnchanged
    /\ CallersUnchanged
    /\ ClientUnchanged

(***************************************************************************)
(* GET /api/status/:repo                                                   *)
(***************************************************************************)
\* simpleGit(repoPath) throws when the directory does not exist; else
\* git.status(), then res.json(modifiedFiles)
StatusGet(repo) ==
    /\ Free
    /\ LET r == [IdleReq EXCEPT !.kind = "status", !.repo = repo,
                                !.repoName = repo]
       IN  req' = IF repos[repo].exists
                  THEN Respond([Called(r, "git.status") EXCEPT
                                   !.list = ModifiedFiles(repos[repo])],
                               200, "modifiedFiles")
                  ELSE Respond(r, 500, "directory does not exist")
    /\ ServerUnchanged
    /\ ListUnchanged
    /\ CallersUnchanged
    /\ ClientUnchanged

(***************************************************************************)
(* The callers                                                             *)
(***************************************************************************)
\* the users of a shared server
Identities == {"alice", "bob"}

\* between two requests, another user becomes the caller
SwitchCaller(u) ==
    /\ Free
    /\ identity # u
    /\ identity' = u
    /\ UNCHANGED <<repos, remotes, serverFile, req, tree, listing, other, owner>>
    /\ ClientUnchanged

(***************************************************************************)
(* Two requests in flight                                                  *)
(***************************************************************************)
\* the handler that runs has reached an await or has ended, and the event
\* loop turns to the other request: its handler resumes, or, when it has
\* ended, the next request can start in its place
Yield ==
    /\ other # req
    /\ req' = other
    /\ other' = req
    /\ UNCHANGED <<repos, remotes, serverFile, tree, listing, identity, owner>>
    /\ ClientUnchanged

(***************************************************************************)
(* GET and PUT /api/file/:repo/*                                           *)
(***************************************************************************)
\* GET: fs.readFile(filePath, 'utf8'), then res.json({content})
FileGet(repo, wildcard) ==
    /\ Free
    /\ LET path == FilePathOf[repo, wildcard]
           r == [IdleReq EXCEPT !.kind = "get", !.repo = repo,
                                !.wildcard = wildcard, !.filePath = path,
                                !.calls = <<"fs.readFile">>]
       IN  req' = IF ReadDisk(path) = NoFile
                  THEN Respond(r, 500, "ENOENT")
                  ELSE Respond([r EXCEPT !.out = ReadDisk(path)], 200, "content")
    /\ ServerUnchanged
    /\ ListUnchanged
    /\ CallersUnchanged
    /\ ClientUnchanged

\* a PUT that opens the file with the flag 'wx': it writes a new file and
\* leaves a file that exists as it is
FilePutExclusive(repo, wildcard, content) ==
    /\ Free
    /\ LET path == FilePathOf[repo, wildcard]
           l == LocationOf[path]
           r == [IdleReq EXCEPT !.kind = "put", !.repo = repo,
                                !.wildcard = wildcard, !.content = content,
                                !.filePath = path,
                                !.calls = <<"fs.writeFile">>]
       IN  IF Writable(path)
           THEN /\ req' = Respond(r, 200, "success")
                /\ IF ReadDisk(path) # NoFile
                   THEN UNCHANGED <<repos, serverFile>>
                   ELSE /\ repos' = [repos EXCEPT ![l.name].work[l.file] = content]
                        /\ UNCHANGED serverFile
           ELSE /\ req' = Respond(r, 500, "ENOENT")
                /\ UNCHANGED <<repos, serverFile>>
    /\ UNCHANGED remotes
    /\ ListUnchanged
    /\ CallersUnchanged
    /\ ClientUnchanged

\* PUT: fs.writeFile(filePath, req.body.content), then res.json({success})
FilePut(repo, wildcard, content) ==
    /\ Free
    /\ LET path == FilePathOf[repo, wildcard]
           l == LocationOf[path]
           r == [IdleReq EXCEPT !.kind = "put", !.repo = repo,
                                !.wildcard = wildcard, !.content = content,
                                !.filePath = path,
                                !.calls = <<"fs.writeFile">>]
       IN  IF Writable(path)
           THEN /\ req' = Respond(r, 200, "success")
                /\ IF l.where = "server"
                   THEN serverFile' = content /\ UNCHANGED repos
                   ELSE /\ repos' = [repos EXCEPT ![l.name].work[l.file] = content]
                        /\ UNCHANGED serverFile
           ELSE /\ req' = Respond(r, 500, "ENOENT")
                /\ UNCHANGED <<repos, serverFile>>
    /\ UNCHANGED remotes
    /\ ListUnchanged
    /\ CallersUnchanged
    /\ ClientUnchanged

(***************************************************************************)
(* GET /api/files/:repo and getMarkdownFiles                               *)
(***************************************************************************)
\* A directory tree on disk is a set of entries [path, dir]: the absolute
\* path of a file or directory, and whether it is a directory.

GitDir == <<Dot, "git">>
HiddenMd == <<Dot, "h", Dot, "md">>
ReadmeMd == <<"a", Dot, "md">>
NotesMd == <<"n", Dot, "md">>
LogoPng == <<"b", Dot, "png">>
CodeTxt == <<"c", Dot, "txt">>
DocsDir == <<"docs">>
SubDir == <<"sub">>

\* the names of the model, in the order fs.readdir returns them
NameOrder ==
    <<GitDir, HiddenMd, ReadmeMd, LogoPng, CodeTxt, DocsDir, NotesMd, SubDir>>

\* the root the model lists: path.join(REPOS_DIR, req.params.repo)
ListRoot == RepoPath(<<"repo">>)

Entry(dir, name, isDir) == [path |-> PathJoin(<<dir, name>>), dir |-> isDir]

\* the directories dir/name can be: with any of the names in `inside` as files
DirsOf(dir, name, inside) ==
    {{Entry(dir, name, TRUE)} \cup {Entry(PathJoin(<<dir, name>>), n, FALSE) : n \in S} :
        S \in SUBSET inside}

\* docs: missing, a file, or a directory of files that may hold sub
DocsChoices ==
    {{}, {Entry(ListRoot, DocsDir, FALSE)}}
    \cup {d \cup sub :
            d \in DirsOf(ListRoot, DocsDir, {NotesMd, CodeTxt}),
            sub \in {{}} \cup DirsOf(PathJoin(<<ListRoot, DocsDir>>), SubDir,
                                     {NotesMd, HiddenMd})}

\* a name at the root: missing, a file, or a directory that may hold n.md
RootChoices(name) ==
    {{}, {Entry(ListRoot, name, FALSE)}} \cup DirsOf(ListRoot, name, {NotesMd})

\* the trees the model lists
Trees ==
    {g \cup a \cup b \cup d :
        g \in RootChoices(GitDir), a \in RootChoices(ReadmeMd),
        b \in {{}, {Entry(ListRoot, LogoPng, FALSE)}}, d \in DocsChoices}

\* fs.readdir(dir): the names in dir
Readdir(T, dir) ==
    SelectSeq(NameOrder, LAMBDA n : \E e \in T : e.path = PathJoin(<<dir, n>>))

\* (await fs.stat(fullPath)).isDirectory()
IsDirectory(T, fullPath) == \E e \in T : e.path = fullPath /\ e.dir

\* item.startsWith('.') only for the .git directory
HiddenGitOnly(item) == item = GitDir

\* item.startsWith('.')
Hidden(item) == StartsWith(item, <<Dot>>)

\* item.endsWith('.md')
IsMarkdown(item) == EndsWith(item, <<Dot, "md">>)

RECURSIVE GetMarkdownFiles(_, _, _)
RECURSIVE ListItems(_, _, _, _)

\* the loop of getMarkdownFiles over the items of dir
ListItems(T, dir, basePath, items) ==
    IF Len(items) = 0 THEN <<>>
    ELSE LET item == Head(items)
             fullPath == PathJoin(<<dir, item>>)
             relativePath == PathJoin(<<basePath, item>>)
             rest == ListItems(T, dir, basePath, Tail(items))
         IN  IF Hidden(item) THEN rest
             ELSE IF IsDirectory(T, fullPath)
             THEN GetMarkdownFiles(T, fullPath, relativePath) \o rest
             ELSE IF IsMarkdown(item) THEN <<relativePath>> \o rest
             ELSE rest

\* getMarkdownFiles(dir, basePath = '')
GetMarkdownFiles(T, dir, basePath) == ListItems(T, dir, basePath, Readdir(T, dir))

\* the handler of GET /api/files/:repo: res.json(files)
ListFiles ==
    /\ ~listing.done
    /\ listing' = [done |-> TRUE, files |-> GetMarkdownFiles(tree, ListRoot, <<>>)]
    /\ UNCHANGED <<repos, remotes, serverFile, req, tree>>
    /\ CallersUnchanged
    /\ ClientUnchanged

(***************************************************************************)
(* The client App (src/client/src/App.tsx, lines 411-996)                  *)
(***************************************************************************)
\* The contents of files are opaque strings, "" the empty string; a file
\* path is a sequence of atoms and <<>> is the empty path of useState('').

\* currentRepo after a sync: data.repoPath
ClientRepo == <<"repo">>

\* what the remote branch holds when the client has synced
ClientSnap == [f \in Files |-> IF f = FileA THEN "c1" ELSE "c2"]

\* what the user can type into the editor
TypedValues == {"", "x"}

\* a Map as a function on its keys: new Map(prev).set(k, v)
MapSet(m, k, v) == [x \in DOMAIN m \cup {k} |-> IF x = k THEN v ELSE m[x]]

\* newMap.delete(k)
MapDelete(m, k) == [x \in DOMAIN m \ {k} |-> m[x]]

\* m.get(k) is a non-empty string: neither undefined nor ''
MapGetTruthy(m, k) == k \in DOMAIN m /\ m[k] # ""

\* a sequence without its i-th element
RemoveAt(q, i) == SubSeq(q, 1, i - 1) \o SubSeq(q, i + 1, Len(q))

\* The state of App after the first render. loads and save are the calls
\* of loadFile and saveFile that wait at an await, statusPending a call of
\* loadGitStatus, commit a call of commitChanges, answer what the last
\* commit request of the client was answered. originalFile and
\* historyFile note the file from which originalContent and editHistory
\* were last taken; leftWith notes, for a file the user left while no load
\* was in flight, the content the editor held at that moment, until the
\* file is edited, reverted or saved, or the editor is used during a load.
InitApp ==
    [currentFile |-> <<>>, content |-> "", originalContent |-> "",
     fileContents |-> <<>>, unsavedFiles |-> {},
     uncommittedFiles |-> {},
     editHistory |-> <<>>, historyIndex |-> -1,
     showCommitModal |-> FALSE, alertMessage |-> "",
     loads |-> <<>>, save |-> [pc |-> "none"],
     statusPending |-> FALSE, commit |-> "none",
     answer |-> [code |-> 0, msg |-> "", pushed |-> FALSE],
     originalFile |-> <<>>, historyFile |-> <<>>,
     leftWith |-> <<>>]

\* the file the server holds for the client: the body of a GET answer
ServerContent(f) == repos[ClientRepo].work[f]

ServerSideUnchanged ==
    UNCHANGED <<repos, remotes, serverFile, req, tree, listing,
                other, identity, owner>>

\* a click on a file of the tree: loadFile(filePath) up to its first await
LoadFileClick(f) ==
    /\ Len(app.loads) < MaxLoads
    /\ LET leaving == app.currentFile # <<>> /\ app.content # app.originalContent
           saved == MapGetTruthy(app.fileContents, f)
           savedContent == IF saved THEN app.fileContents[f] ELSE ""
       IN  app' = [app EXCEPT
                     !.fileContents =
                        IF leaving THEN MapSet(@, app.currentFile, app.content)
                        ELSE @,
                     !.content = IF saved THEN savedContent ELSE @,
                     !.loads = Append(@, [file |-> f, pc |-> "fetch1",
                                          saved |-> saved,
                                          savedContent |-> savedContent]),
                     !.leftWith =
                        IF app.currentFile = <<>> \/ app.currentFile = f THEN @
                        ELSE IF app.loads = <<>>
                        THEN MapSet(@, app.currentFile, app.content)
                        ELSE MapDelete(@, app.currentFile)]
    /\ ServerSideUnchanged

\* the first fetch of a loadFile call resolves: content, originalContent
\* and currentFile are set; with a saved content the history is set too
LoadFileFetched(i) ==
    /\ i \in 1..Len(app.loads)
    /\ app.loads[i].pc = "fetch1"
    /\ LET l == app.loads[i]
           data == ServerContent(l.file)
       IN  app' = [app EXCEPT
                     !.content = IF l.saved THEN @ ELSE data,
                     !.originalContent = data,
                     !.originalFile = l.file,
                     !.currentFile = l.file,
                     !.editHistory = IF l.saved THEN <<l.savedContent>> ELSE @,
                     !.historyIndex = IF l.saved THEN 0 ELSE @,
                     !.historyFile = IF l.saved THEN l.file ELSE @,
                     !.loads = IF l.saved THEN RemoveAt(@, i)
                               ELSE [@ EXCEPT ![i].pc = "fetch2"]]
    /\ ServerSideUnchanged

\* the fetch of the initial content resolves: the edit history is set
LoadFileHistory(i) ==
    /\ i \in 1..Len(app.loads)
    /\ app.loads[i].pc = "fetch2"
    /\ LET l == app.loads[i]
       IN  app' = [app EXCEPT
                     !.editHistory = <<ServerContent(l.file)>>,
                     !.historyIndex = 0,
                     !.historyFile = l.file,
                     !.loads = RemoveAt(@, i)]
    /\ ServerSideUnchanged

\* onChange of the editor with the value val
EditorChange(val) ==
    /\ app.currentFile # <<>>
    /\ app.historyIndex + 2 <= MaxHistory
    /\ LET newHistory ==
               Append(SubSeq(app.editHistory, 1, app.historyIndex + 1), val)
       IN  app' = [app EXCEPT
                     !.content = val,
                     !.editHistory = newHistory,
                     !.historyIndex = Len(newHistory) - 1,
                     !.fileContents = MapSet(@, app.currentFile, val),
                     !.unsavedFiles =
                        IF val # app.originalContent
                        THEN @ \cup {app.currentFile}
                        ELSE @ \ {app.currentFile},
                     !.leftWith = IF app.loads = <<>>
                                  THEN MapDelete(@, app.currentFile)
                                  ELSE <<>>]
    /\ ServerSideUnchanged

\* handleUndo, behind a button that is disabled when historyIndex <= 0
HandleUndo ==
    /\ app.currentFile # <<>>
    /\ app.historyIndex > 0
    /\ app' = [app EXCEPT
                 !.historyIndex = @ - 1,
                 !.content = app.editHistory[app.historyIndex],
                 !.leftWith = IF app.loads = <<>>
                              THEN MapDelete(@, app.currentFile)
                              ELSE <<>>]
    /\ ServerSideUnchanged

\* revertChanges and the confirmation of its dialog; the button is
\* disabled when content === originalContent
RevertChanges ==
    /\ app.currentFile # <<>>
    /\ app.content # app.originalContent
    /\ app' = [app EXCEPT
                 !.content = app.originalContent,
                 !.fileContents = MapDelete(@, app.currentFile),
                 !.unsavedFiles = @ \ {app.currentFile},
                 !.editHistory = <<app.originalContent>>,
                 !.historyIndex = 0,
                 !.historyFile = app.originalFile,
                 !.leftWith = IF app.loads = <<>>
                              THEN MapDelete(@, app.currentFile)
                              ELSE <<>>]
    /\ ServerSideUnchanged

\* saveFile up to its await: the PUT carries currentFile and content
SaveFileClick ==
    /\ app.currentFile # <<>>
    /\ app.content # app.originalContent
    /\ app.save.pc = "none"
    /\ app' = [app EXCEPT
                 !.save = [pc |-> "put", file |-> app.currentFile,
                           content |-> app.content]]
    /\ ServerSideUnchanged

\* the server writes the file and the PUT resolves: saveFile goes on with
\* the currentFile and the content of its own render
SaveFileDone ==
    /\ app.save.pc = "put"
    /\ repos' = [repos EXCEPT ![ClientRepo].work[app.save.file] = app.save.content]
    /\ app' = [app EXCEPT
                 !.originalContent = app.save.content,
                 !.originalFile = app.save.file,
                 !.unsavedFiles = @ \ {app.save.file},
                 !.fileContents = MapDelete(@, app.save.file),
                 !.editHistory = <<>>,
                 !.historyIndex = -1,
                 !.historyFile = app.save.file,
                 !.statusPending = TRUE,
                 !.save = [pc |-> "none"],
                 !.leftWith = MapDelete(@, app.save.file)]
    /\ UNCHANGED <<remotes, serverFile, req, tree, listing, other, identity, owner>>

\* loadGitStatus: the fetch of /api/status resolves
LoadGitStatusDone ==
    /\ app.statusPending
    /\ LET l == ModifiedFiles(repos[ClientRepo])
       IN  app' = [app EXCEPT
                     !.uncommittedFiles = {l[i] : i \in 1..Len(l)},
                     !.statusPending = FALSE]
    /\ ServerSideUnchanged

\* openCommitModal
OpenCommitModal ==
    /\ app.commit = "none"
    /\ ~app.showCommitModal
    /\ app' = IF app.uncommittedFiles = {}
              THEN [app EXCEPT !.alertMessage = "No changes to commit"]
              ELSE [app EXCEPT !.showCommitModal = TRUE]
    /\ ServerSideUnchanged

\* commitChanges up to its await, with the commit message of the modal:
\* '' is a message that is empty once trimmed
CommitChanges(message) ==
    /\ app.showCommitModal
    /\ app.commit = "none"
    /\ app' = IF message = ""
              THEN [app EXCEPT !.alertMessage = "Please enter a commit message"]
              ELSE [app EXCEPT !.commit = "sending"]
    /\ ServerSideUnchanged

\* the fetch of commitChanges rejects (no connection): the catch logs
CommitFetchRejected ==
    /\ app.commit = "sending"
    /\ req.kind # "commit"
    /\ app' = [app EXCEPT !.commit = "none"]
    /\ ServerSideUnchanged

\* the fetch of commitChanges resolves with the answer of the server,
\* whatever its status: the modal closes and the alert is shown
CommitAnswered ==
    /\ app.commit = "sending"
    /\ req.kind = "commit" /\ req.pc = "done"
    /\ app' = [app EXCEPT
                 !.showCommitModal = FALSE,
                 !.statusPending = TRUE,
                 !.alertMessage = "Changes committed and pushed!",
                 !.commit = "none",
                 !.answer = [code |-> req.code, msg |-> req.msg,
                             pushed |-> \E i \in 1..Len(req.calls) : req.calls[i] = "git.push"]]
    /\ req' = IdleReq
    /\ UNCHANGED <<repos, remotes, serverFile, tree, listing, other, identity, owner>>

(***************************************************************************)
(* The server                                                              *)
(***************************************************************************)
ListIdle == tree = {} /\ listing = NotListed

Init ==
    /\ repos = [n \in RepoNames |-> Absent]
    /\ remotes = [u \in Urls |-> Snap0]
    /\ serverFile = "server code"
    /\ req = IdleReq
    /\ other = IdleReq
    /\ identity = "alice"
    /\ owner = [n \in RepoNames |-> "nobody"]
    /\ app = InitApp
    /\ ListIdle

Next ==
    \/ \E b \in SyncBodies : SyncStart(b.repoUrl, b.token, b.provider)
    \/ SyncPathExists
    \/ SyncRemove
    \/ SyncCloneOk
    \/ SyncCloneFail
    \/ \E n \in RepoParams, b \in CommitBodies :
          CommitStart(n, b.repoUrl, b.token, b.provider)
    \/ CommitStatus
    \/ CommitFail
    \/ CommitAddRemote
    \/ CommitAdd
    \/ CommitCommit
    \/ CommitRevparse
    \/ CommitPush
    \/ \E n \in RepoParams, w \in RepoWildcards : FileGet(n, w)
    \/ \E n \in RepoParams, w \in RepoWildcards, c \in Contents : FilePut(n, w, c)
    \/ \E n \in RepoParams : StatusGet(n)

\* the sync, commit, status and file requests, one at a time, the file requests
\* naming files of the repository
Spec == Init /\ [][Next]_vars

NextFiles ==
    \/ \E b \in SyncBodies : SyncStart(b.repoUrl, b.token, b.provider)
    \/ SyncPathExists
    \/ SyncRemove
    \/ SyncCloneOk
    \/ SyncCloneFail
    \/ \E n \in RepoParams, w \in Wildcards : FileGet(n, w)
    \/ \E n \in RepoParams, w \in Wildcards, c \in Contents : FilePut(n, w, c)

\* the sync and file requests, one at a time, with any wildcard path
SpecFiles == Init /\ [][NextFiles]_vars

NextConc ==
    \/ Yield
    \/ SyncStart(Str(GithubUrl), Str(<<"tokA">>), "github")
    \/ SyncPathExists
    \/ SyncRemove
    \/ SyncCloneOk
    \/ SyncCloneFail
    \/ \E n \in RepoParams : CommitStart(n, Str(GithubUrl), Str(<<"tokA">>), "github")
    \/ CommitStatus
    \/ CommitFail
    \/ CommitAddRemote
    \/ CommitAdd
    \/ CommitCommit
    \/ CommitRevparse
    \/ CommitPush
    \/ \E n \in RepoParams, c \in Contents : FilePut(n, FileA, c)

\* two requests in flight on the same repository path: their handlers
\* interleave at every await
SpecConc == Init /\ [][NextConc]_vars

NextUsers ==
    \/ \E u \in Identities : SwitchCaller(u)
    \/ \E b \in SyncBodies : SyncStart(b.repoUrl, b.token, b.provider)
    \/ SyncPathExists
    \/ SyncRemove
    \/ SyncCloneOk
    \/ SyncCloneFail
    \/ \E n \in RepoParams, w \in RepoWildcards : FileGet(n, w)
    \/ \E n \in RepoParams, w \in RepoWildcards, c \in Contents : FilePut(n, w, c)

\* the sync and file requests of several users, one request at a time
SpecUsers == Init /\ [][NextUsers]_vars

NextUrl ==
    \E u \in GitUrls, t \in {Str(k) : k \in Tokens} \cup {Undefined} :
        SyncStart(Str(u), t, "github")

\* the start of a sync request on every URL of GitUrls: the derivation of
\* the repository name
SpecUrl == Init /\ [][NextUrl]_vars

\* the client after a sync: the working copy is a fresh clone
InitClient ==
    /\ repos = [n \in RepoNames |->
                  FreshClone(AuthUrl(GithubUrl, Str(<<"tokA">>)), ClientSnap)]
    /\ remotes = [u \in Urls |-> ClientSnap]
    /\ serverFile = "server code"
    /\ req = IdleReq
    /\ other = IdleReq
    /\ identity = "alice"
    /\ owner = [n \in RepoNames |-> "alice"]
    /\ ListIdle
    /\ app = InitApp

\* no loadFile and no saveFile call is in flight
Quiet == app.loads = <<>> /\ app.save.pc = "none"

NextLoads ==
    \/ \E f \in Files : LoadFileClick(f)
    \/ \E i \in 1..MaxLoads : LoadFileFetched(i)
    \/ \E i \in 1..MaxLoads : LoadFileHistory(i)
    \/ \E v \in TypedValues : EditorChange(v)

\* the file clicks of the client and its edits, with up to MaxLoads calls
\* of loadFile in flight and their fetches resolving in any order
SpecLoads == InitClient /\ [][NextLoads]_vars

NextEditor ==
    \/ \E f \in Files : Quiet /\ LoadFileClick(f)
    \/ LoadFileFetched(1)
    \/ LoadFileHistory(1)
    \/ \E v \in TypedValues : EditorChange(v)
    \/ HandleUndo
    \/ RevertChanges
    \/ Quiet /\ SaveFileClick
    \/ SaveFileDone

\* the editor of the client: edits, undo, revert, save and file clicks,
\* a file or Save being clicked only when no request is in flight
SpecEditor == InitClient /\ [][NextEditor]_vars

NextCommit ==
    \/ Quiet /\ LoadFileClick(FileA)
    \/ LoadFileFetched(1)
    \/ LoadFileHistory(1)
    \/ app.commit = "none" /\ EditorChange("x")
    \/ Quiet /\ app.commit = "none" /\ SaveFileClick
    \/ SaveFileDone
    \/ LoadGitStatusDone
    \/ OpenCommitModal
    \/ \E m \in {"", "msg"} : CommitChanges(m)
    \/ CommitFetchRejected
    \/ /\ app.commit = "sending" /\ req.kind # "commit"
       /\ CommitStart(ClientRepo, Str(GithubUrl), Str(<<"tokA">>), "github")
    \/ CommitStatus
    \/ CommitFail
    \/ CommitAddRemote
    \/ CommitAdd
    \/ CommitCommit
    \/ CommitRevparse
    \/ CommitPush
    \/ CommitAnswered

\* the client's Commit & Push and the server's commit workflow: the user
\* edits and saves a.md, opens the commit modal and commits
SpecCommit == InitClient /\ [][NextCommit]_vars

InitList ==
    /\ repos = [n \in RepoNames |-> Absent]
    /\ remotes = [u \in Urls |-> Snap0]
    /\ serverFile = "server code"
    /\ req = IdleReq
    /\ other = IdleReq
    /\ identity = "alice"
    /\ owner = [n \in RepoNames |-> "nobody"]
    /\ app = InitApp
    /\ tree \in Trees
    /\ listing = NotListed

NextList == ListFiles

\* getMarkdownFiles on every tree of Trees
SpecList == InitList /\ [][NextList]_vars

(***************************************************************************)
(* Properties of the sync workflow                                         *)
(***************************************************************************)
SyncDone == req.kind = "sync" /\ req.pc = "done"

\* C1: a sync request whose token is absent or empty is answered 400,
\* whatever the rest of the body is.
SyncWithoutTokenIs400 ==
    (SyncDone /\ ~Truthy(req.token)) => req.code = 400

WorkingCopySurvivesSync ==
    (SyncDone /\ req.existed) => repos[req.repoName].exists

(***************************************************************************)
(* Properties of the commit workflow                                       *)
(***************************************************************************)
CommitDone == req.kind = "commit" /\ req.pc = "done"

\* C4: when git.status answers with no changed path, the commit request
\* ends at once with success and "No changes to commit"; its only git call
\* is the status, and the working copies and the remotes are as before.
CommitNoOpMutatesNothing ==
    [][(/\ req.kind = "commit" /\ req.pc = "status"
        /\ ChangedPaths(repos[req.repoName]) = {}
        /\ req'.code # 500)
       => (/\ req'.pc = "done"
           /\ req'.code = 200
           /\ req'.msg = "No changes to commit"
           /\ req'.calls = <<"git.status">>
           /\ repos' = repos
           /\ remotes' = remotes)]_vars

\* C4 witness: a commit request on a clean working copy was answered
CommitNoOpAnswered ==
    /\ CommitDone /\ req.code = 200
    /\ req.statusFiles = {} /\ req.calls = <<"git.status">>

\* the positions of a call in the calls of the request
CallsAt(call) == {i \in 1..Len(req.calls) : req.calls[i] = call}

\* C8: a commit request that pushed and ended in success has made a
\* rebase-pull after the local commit and before the push.
CommitPullsBeforePush ==
    (CommitDone /\ req.code = 200 /\ CallsAt("git.push") # {}) =>
        \E c \in CallsAt("git.commit"), p \in CallsAt("git.pull"),
           q \in CallsAt("git.push") : c < p /\ p < q

\* C9: when the push throws, the request ends with a 500 and an error
\* message, nothing is rolled back, and the working copy is ahead of the
\* remote by the commit just made.
PushFailureKeepsCommit ==
    [][(/\ req.kind = "commit" /\ req.pc = "push"
        /\ req'.pc = "done" /\ req'.code # 200)
       => (/\ req'.code = 500
           /\ req'.msg # ""
           /\ CallsAt("git.commit") # {}
           /\ repos' = repos
           /\ remotes' = remotes
           /\ repos'[req.repoName].exists
           /\ repos'[req.repoName].ahead >= 1
           /\ repos'[req.repoName].head = repos'[req.repoName].index)]_vars

\* C9 witness: a commit request failed at the push and the working copy is
\* ahead of the remote
PushFailedAfterCommit ==
    /\ CommitDone /\ req.code = 500
    /\ CallsAt("git.push") # {}
    /\ repos[req.repoName].exists
    /\ repos[req.repoName].ahead >= 1

(***************************************************************************)
(* Properties of the authenticated URL                                     *)
(***************************************************************************)
HttpsPrefix == <<"https", ":", Slash, Slash>>

\* the token in the authority of a plain HTTPS URL, in the provider's form
InjectToken(provider, url, token) ==
    HttpsPrefix
        \o (IF provider = "gitlab" THEN <<"oauth2", ":">> ELSE <<>>)
        \o token \o <<"@">> \o SubSeq(url, Len(HttpsPrefix) + 1, Len(url))

\* C6: the authenticated URL a sync or commit request builds from a plain
\* HTTPS URL and a non-empty token carries the token in the authority, as
\* token@ for github and as oauth2:token@ for gitlab.
AuthUrlCarriesToken ==
    (/\ req.kind \in {"sync", "commit"}
     /\ req.authUrl # <<>>
     /\ IsString(req.repoUrl) /\ Truthy(req.token)
     /\ StartsWith(req.repoUrl.s, HttpsPrefix))
    => req.authUrl = InjectToken(req.provider, req.repoUrl.s, req.token.s)

\* C7: once a request has completed, no working copy's stored remote holds
\* a token.
TokenNotPersisted ==
    req.pc = "done" =>
        \A n \in RepoNames :
            repos[n].exists =>
                \A k \in Tokens : Occurrences(repos[n].origin, k) = {}

(***************************************************************************)
(* Properties of the file handlers                                         *)
(***************************************************************************)
HasDotDot(wildcard) ==
    \E i \in 1..Len(Split(wildcard, Slash)) : Split(wildcard, Slash)[i] = DotDot

IsInside(path, root) == path = root \/ StartsWith(path, root \o <<Slash>>)

\* C5: a file read or write with a '..' segment or an absolute path in the
\* wildcard is rejected, and the path a file request reads or writes lies
\* inside the repository's root.
FileAccessStaysInRepo ==
    (req.kind \in {"get", "put"} /\ req.pc = "done") =>
        /\ (HasDotDot(req.wildcard) \/ StartsWith(req.wildcard, <<Slash>>))
              => req.code = 400
        /\ req.code = 200 => IsInside(req.filePath, RepoPath(req.repo))

(***************************************************************************)
(* Properties of the listing                                               *)
(***************************************************************************)
ListedExtensions == {"md", "png", "jpg", "jpeg", "gif", "svg"}

\* C10: no path of the listing has a segment that starts with a dot, and
\* every path of the listing ends in .md or in an image extension.
ListingHidesDotfilesAndOtherFiles ==
    \A i \in 1..Len(listing.files) :
        LET segs == Split(listing.files[i], Slash)
        IN  /\ \A j \in 1..Len(segs) : ~StartsWith(segs[j], <<Dot>>)
            /\ \E x \in ListedExtensions : EndsWith(Last(segs), <<Dot, x>>)

\* C10 witness: a listing was returned for a tree that holds a dot
\* directory with a markdown file in it, a dotfile two levels down, and a
\* file that is neither markdown nor an image.
ListedTreeWithHiddenEntries ==
    /\ listing.done /\ Len(listing.files) >= 2
    /\ Entry(PathJoin(<<ListRoot, GitDir>>), NotesMd, FALSE) \in tree
    /\ Entry(PathJoin(<<ListRoot, DocsDir, SubDir>>), HiddenMd, FALSE) \in tree
    /\ Entry(PathJoin(<<ListRoot, DocsDir>>), CodeTxt, FALSE) \in tree

\* the path of a tree entry relative to the listed root, as segments
RelativeSegs(e) ==
    SubSeq(Segments(e.path), Len(Segments(ListRoot)) + 1, Len(Segments(e.path)))

\* no segment of the entry's relative path starts with a dot
NotHidden(e) ==
    \A j \in 1..Len(RelativeSegs(e)) : ~StartsWith(RelativeSegs(e)[j], <<Dot>>)

\* the paths of the listing's entries
ListedPaths == {listing.files[i] : i \in 1..Len(listing.files)}

\* C11: the listing of a tree holds the relative path of every file that
\* is not hidden and ends in .md or an image extension, and the relative
\* path of every directory that is not hidden.
ListingHoldsFilesAndFolders ==
    listing.done =>
        \A e \in tree :
            NotHidden(e) =>
                \/ /\ ~e.dir
                   /\ \A x \in ListedExtensions :
                        ~EndsWith(Last(RelativeSegs(e)), <<Dot, x>>)
                \/ Join(RelativeSegs(e), Slash) \in ListedPaths

(***************************************************************************)
(* Properties of the status view                                           *)
(***************************************************************************)
StatusDone == req.kind = "status" /\ req.pc = "done"

\* the positions of a path in the list a status request answered
ListedAt(f) == {i \in 1..Len(req.list) : req.list[i] = f}

\* C12: the list a status request answers holds every changed path of the
\* working copy (modified, staged, added or untracked, deleted) exactly
\* once.
StatusListsEachChangeOnce ==
    (StatusDone /\ req.code = 200) =>
        \A f \in Files :
            Cardinality(ListedAt(f)) =
                IF f \in ChangedPaths(repos[req.repoName]) THEN 1 ELSE 0

\* C13: a commit request whose git.status succeeded answers "No changes to
\* commit" exactly when the list a status request answers on the same
\* working tree is empty.
CommitNoOpIffStatusEmpty ==
    (/\ req.kind = "commit" /\ req.calls = <<"git.status">>
     /\ req.msg # "git failed")
    => (req.msg = "No changes to commit"
            <=> ModifiedFiles(repos[req.repoName]) = <<>>)

StatusFollowsPutAndCommit ==
    /\ (/\ req.kind = "put" /\ req.pc = "done" /\ req.code = 200
        /\ \E f \in Files :
              /\ req.wildcard = f
              /\ repos[req.repo].work[f] # repos[req.repo].head[f])
       => ModifiedFiles(repos[req.repo]) # <<>>
    /\ (CommitDone /\ req.code = 200)
       => ModifiedFiles(repos[req.repoName]) = <<>>

(***************************************************************************)
(* Properties of the repository name                                       *)
(***************************************************************************)
\* C16: the repository name a sync request derives from a URL that ends in
\* '.git' is the URL's last segment without its final '.git', every other
\* atom kept.
RepoNameStripsTrailingGit ==
    (/\ req.kind = "sync" /\ IsString(req.repoUrl)
     /\ EndsWith(req.repoUrl.s, <<Dot, "git">>))
    => LET seg == Last(Split(req.repoUrl.s, Slash))
       IN  req.repoName = SubSeq(seg, 1, Len(seg) - 2)

(***************************************************************************)
(* Properties of the storage of working copies                             *)
(***************************************************************************)
\* C17: the working copy a sync request has deleted, and is about to
\* replace, is one that its own caller cloned, never the working copy that
\* another identity holds for a repository of the same name.
SyncSparesOtherIdentities ==
    (req.kind = "sync" /\ req.pc = "clone" /\ req.existed)
    => owner[req.repoName] = identity

(***************************************************************************)
(* Properties of two requests on one repository path                       *)
(***************************************************************************)
\* a commit request has computed its status, found changes, and has neither
\* pushed nor ended
CommitMidFlight(r) ==
    /\ r.kind = "commit"
    /\ r.pc \in {"addRemote", "add", "commit", "revparse", "push"}
    /\ r.statusFiles # {}

\* C18: when the working-copy directory is gone while a commit request is
\* between its status and its push, the next step of that request leaves
\* the disk and the remotes as they are and, unless it is the swallowed
\* addRemote, ends the request with a 500.
CommitFailsOnDeletedWorkingCopy ==
    [][(/\ CommitMidFlight(req)
        /\ ~repos[req.repoName].exists
        /\ other' = other /\ req' # req)
       => (/\ repos' = repos /\ remotes' = remotes
           /\ IF req.pc = "addRemote"
              THEN req'.pc = "add" /\ req'.swallowed
              ELSE req'.pc = "done" /\ req'.code = 500)]_vars

\* C18 witness: a sync request has deleted the working-copy directory and
\* has not cloned yet, while a commit request on the same path that
\* computed its status before has not pushed yet.
SyncDeletedMidCommit ==
    /\ CommitMidFlight(req)
    /\ other.kind = "sync" /\ other.pc = "clone" /\ other.existed
    /\ other.repoName = req.repoName
    /\ ~repos[req.repoName].exists

OriginIsThisRequestsUrl ==
    (/\ req.kind = "commit" /\ CallsAt("git.addRemote") # {}
     /\ IsString(req.repoUrl) /\ Truthy(req.token)
     /\ repos[req.repoName].exists)
    => repos[req.repoName].origin = req.authUrl

(***************************************************************************)
(* Properties of a repeated commit request                                 *)
(***************************************************************************)
\* C21: when a commit request has answered success, with or without "No
\* changes to commit", the working copy has no local commit that the
\* remote branch lacks.
CommitSuccessLeavesNothingUnpushed ==
    (CommitDone /\ req.code = 200 /\ repos[req.repoName].exists)
    => (/\ repos[req.repoName].ahead = 0
        /\ remotes[StripCred(repos[req.repoName].origin)]
              = repos[req.repoName].head)

(***************************************************************************)
(* Properties of the client's editor                                       *)
(***************************************************************************)
\* C22: once no loadFile call is in flight, the editor belongs to
\* currentFile: originalContent is the server content of currentFile,
\* content is that server content or the unsaved buffer of currentFile,
\* and editHistory was initialised from currentFile.
EditorBelongsToCurrentFile ==
    (app.loads = <<>> /\ app.currentFile # <<>>) =>
        /\ app.originalContent = ServerContent(app.currentFile)
        /\ \/ app.content = app.originalContent
           \/ /\ app.currentFile \in DOMAIN app.fileContents
              /\ app.content = app.fileContents[app.currentFile]
        /\ app.historyFile = app.currentFile

\* C23: whenever a file is open and no request is in flight, currentFile
\* is in unsavedFiles exactly when content differs from originalContent.
UnsavedMarkMatchesContent ==
    (app.currentFile # <<>> /\ Quiet) =>
        (app.currentFile \in app.unsavedFiles
            <=> app.content # app.originalContent)

\* C24: when the user has left a file and has opened it again, without a
\* save, a revert or an edit of it in between, the editor shows the
\* content it held for the file when the user left it.
ReopenedFileShowsContentLeft ==
    (Quiet /\ app.currentFile \in DOMAIN app.leftWith) =>
        app.content = app.leftWith[app.currentFile]

\* C25: while the client shows 'Changes committed and pushed!', the commit
\* request it last sent was answered with status 200 and not with "No
\* changes to commit", and the server had run git.push for it.
AlertOnlyAfterPushedCommit ==
    app.alertMessage = "Changes committed and pushed!"
        => /\ app.answer.code = 200
           /\ app.answer.msg # "No changes to commit"
           /\ app.answer.pushed

\* C26: editHistory is empty with historyIndex -1, or historyIndex is an
\* index of editHistory; and whenever a file is open with historyIndex >= 0
\* and no request is in flight, editHistory[historyIndex] is the content.
HistoryIndexPointsAtContent ==
    /\ \/ app.editHistory = <<>> /\ app.historyIndex = -1
       \/ 0 <= app.historyIndex /\ app.historyIndex < Len(app.editHistory)
    /\ (app.currentFile # <<>> /\ app.historyIndex >= 0 /\ Quiet)
       => app.editHistory[app.historyIndex + 1] = app.content

====
